---- MODULE Spec2Model ----
(***************************************************************************)
(* Model of the fuel-subsquid-token-indexer batch handler (main.ts).       *)
(*                                                                         *)
(* The handler receives one batch of blocks, walks the receipts in order,  *)
(* folds MINT and SRC-20 LOG_DATA receipts into Asset records held in the  *)
(* per-batch map assetsById, and at the end calls ctx.store.upsert on the  *)
(* values of the map.  The store is an external collaborator: a point      *)
(* lookup (findOne) is awaited, the final upsert is started but its        *)
(* promise is not awaited, so it settles at some later time.               *)
(*                                                                         *)
(* Strings that the code slices and hex-decodes are sequences of one-      *)
(* character strings.  Nullable fields are option values: <<>> is          *)
(* null/undefined and <<v>> is the value v.                                *)
(***************************************************************************)
EXTENDS Integers, Sequences, FiniteSets, TLC

VARIABLES
    store,        \* the asset table: id -> Asset, for the ids that have a row
    assetsById,   \* the handler's local map (line 100)
    pc,           \* position of the handler: "idle", "run", "done", "error"
    batchNo,      \* number of the batch being (or last) handled
    processed,    \* receipts of the current batch handled so far
    used,         \* receipts handled so far in the whole run
    inflight,     \* upsert calls started and not yet settled
    cur,          \* the receipt handled by the latest loop iteration
    lookups,      \* findOne calls of the current batch, per id
    written,      \* fields assigned by the current batch, per id
    base,         \* rows returned by the findOne calls of the current batch, per id
    onlyIgnored,  \* TRUE while every receipt of the current batch was an ignored one
    startStore,   \* the store content when the current batch started
    foreign,      \* TRUE when an upsert of another batch landed during this batch
    history,      \* per batch: how the handler ended and how its upsert settled
    last,         \* per id and field: value assigned last by a batch that ran to its end
    B,            \* the receipts of a batch that is delivered again and again,
                  \* or <<>> when every batch brings receipts of its own
    after1        \* when a batch is redelivered: the store content right after
                  \* the upsert of its first delivery landed

vars == <<store, assetsById, pc, batchNo, processed, used, inflight, cur, lookups,
          written, base, onlyIgnored, startStore, foreign, history, last, B, after1>>

----------------------------------------------------------------------------
(* Bounds *)

MaxBatches == 2     \* batches handled in a run
MaxReceipts == 3    \* receipts handled in a run, over all its batches
MaxLen == 2         \* receipts of a batch that is redelivered

----------------------------------------------------------------------------
(* Option values and strings *)

None == <<>>
Some(v) == <<v>>

HexDigits == {"0", "1", "2", "3", "4", "5", "6", "7", "8", "9",
              "a", "b", "c", "d", "e", "f"}

\* The discriminators of the three SRC-20 metadata events (64-bit values,
\* kept as decimal strings).
setNameEventId == "7845998088195677205"
setSymbolEventId == "12152039456660331088"
setDecimalsEventId == "18149631459970394923"

\* s.slice(2): drops the first two characters, whatever they are.
Slice2(s) == SubSeq(s, 3, Len(s))

\* Buffer.from(h, 'hex'): decodes pairs of hex digits from the left and stops
\* at the first pair that is not two hex digits; a trailing single character
\* is dropped.  No error is raised.  A byte is the pair of its digits.
RECURSIVE BufferFromHex(_)
BufferFromHex(h) ==
    IF Len(h) < 2 THEN <<>>
    ELSE IF h[1] \in HexDigits /\ h[2] \in HexDigits
         THEN << <<h[1], h[2]>> >> \o BufferFromHex(SubSeq(h, 3, Len(h)))
         ELSE <<>>

\* createHash('sha256').update(bytes).digest('hex'): the digest is taken to be
\* collision free, so it is represented by the hex text of the bytes hashed.
RECURSIVE Sha256Hex(_)
Sha256Hex(bytes) ==
    IF bytes = <<>> THEN <<>>
    ELSE bytes[1] \o Sha256Hex(Tail(bytes))

getAssetId(contractId, subId) ==
    <<"0", "x">> \o Sha256Hex(BufferFromHex(Slice2(contractId) \o Slice2(subId)))

----------------------------------------------------------------------------
(* Inputs *)

C_AA == <<"0", "x", "a", "a">>
C_ZZ == <<"0", "x", "z", "z">>
S_BB == <<"0", "x", "b", "b">>
S_B  == <<"0", "x", "b">>

ID1 == <<"0", "x", "a", "a", "b", "b">>
ID2 == <<"0", "x", "a", "a">>

NoData == [ok |-> TRUE, asset |-> None, name |-> None, symbol |-> None, decimals |-> None]
BadData == [NoData EXCEPT !.ok = FALSE]

Mint(c, s) ==
    [receiptType |-> "MINT", contract |-> c, subId |-> s, rb |-> "0", data |-> NoData]
LogData(rb, d) ==
    [receiptType |-> "LOG_DATA", contract |-> None, subId |-> None, rb |-> rb, data |-> d]

MintReceipts ==
    { Mint(Some(C_AA), Some(S_BB)), Mint(Some(C_AA), Some(S_B)),
      Mint(Some(C_ZZ), Some(S_BB)), Mint(None, Some(S_BB)) }

NameReceipts ==
    { LogData(setNameEventId, [NoData EXCEPT !.asset = Some(a), !.name = Some(n)]) :
        a \in {ID1}, n \in {"A", "B"} }
SymbolReceipts ==
    { LogData(setSymbolEventId, [NoData EXCEPT !.asset = Some(ID1), !.symbol = Some("S")]) }
DecimalsReceipts ==
    { LogData(setDecimalsEventId, [NoData EXCEPT !.asset = Some(ID1), !.decimals = Some(9)]) }
MalformedReceipts ==
    { LogData(rb, BadData) : rb \in {setNameEventId, setSymbolEventId, setDecimalsEventId} }
IgnoredReceipts ==
    { LogData("1", BadData),
      [receiptType |-> "BURN", contract |-> Some(C_AA), subId |-> Some(S_BB),
       rb |-> "0", data |-> NoData] }

Receipts ==
    MintReceipts \cup NameReceipts \cup SymbolReceipts \cup DecimalsReceipts
        \cup MalformedReceipts \cup IgnoredReceipts

\* The receipts the specification calls ignored: a kind other than MINT and
\* LOG_DATA, or a LOG_DATA whose rb is none of the three known codes.
Skipped(r) ==
    \/ r.receiptType \notin {"MINT", "LOG_DATA"}
    \/ r.receiptType = "LOG_DATA"
       /\ r.rb \notin {setNameEventId, setSymbolEventId, setDecimalsEventId}

NoReceipt == [receiptType |-> "NONE", contract |-> None, subId |-> None,
              rb |-> "0", data |-> NoData]

----------------------------------------------------------------------------
(* The Asset entity *)

Fields == {"contractId", "subId", "name", "symbol", "decimals"}

\* new Asset({ id: assetId })
NewAsset(id) ==
    [id |-> id, contractId |-> None, subId |-> None,
     name |-> None, symbol |-> None, decimals |-> None]

Empty == [k \in {} |-> NewAsset(<<>>)]

Put(m, id, a) == [k \in DOMAIN m \cup {id} |-> IF k = id THEN a ELSE m[k]]

Row(c, s, n, y, d) ==
    [id |-> getAssetId(c, s), contractId |-> Some(c), subId |-> Some(s),
     name |-> n, symbol |-> y, decimals |-> d]

\* Store contents the handler may find when the program starts.
InitStores ==
    { Empty,
      Put(Empty, ID1, Row(C_AA, S_BB, None, None, None)) }

----------------------------------------------------------------------------
(* The handler, lines 93-146 *)

IsMint(r) == r.receiptType = "MINT"
IsLogData(r) == r.receiptType = "LOG_DATA"

\* Mutant of Recognized: the switch has a default that decodes like setName.
RecognizedAlways(r) == TRUE

\* The case labels of the switch on receipt.rb.
Recognized(r) == r.rb \in {setNameEventId, setSymbolEventId, setDecimalsEventId}

\* A receipt that enters neither if-branch, or no case of the switch.
Ignored(r) == ~IsMint(r) /\ ~(IsLogData(r) /\ Recognized(r))

\* The receipt makes the loop body throw before any lookup: slice on a missing
\* contract or subId (TypeError), or decodeLog on a payload that does not
\* follow the ABI layout of a recognized event.
Throws(r) ==
    \/ IsMint(r) /\ (r.contract = None \/ r.subId = None)
    \/ IsLogData(r) /\ Recognized(r) /\ ~r.data.ok

\* Mutant of MintAssetId: the arguments of getAssetId swapped.
MintAssetIdSwapped(r) == getAssetId(r.subId[1], r.contract[1])

\* Line 117.
MintAssetId(r) == getAssetId(r.contract[1], r.subId[1])

\* The id handed to getAsset: the derived id for a mint, asset.bits of the
\* decoded event for a metadata log.
TargetId(r) == IF IsMint(r) THEN MintAssetId(r) ELSE r.data.asset[1]

\* The fields the receipt assigns.
FieldsOf(r) ==
    IF IsMint(r) THEN {"contractId", "subId"}
    ELSE IF r.rb = setNameEventId THEN {"name"}
    ELSE IF r.rb = setSymbolEventId THEN {"symbol"}
    ELSE {"decimals"}

\* The assignments of the branch taken by r, on the asset a.
Assign(a, r) ==
    IF IsMint(r) THEN [a EXCEPT !.contractId = r.contract, !.subId = r.subId]
    ELSE IF r.rb = setNameEventId THEN [a EXCEPT !.name = r.data.name]
    ELSE IF r.rb = setSymbolEventId THEN [a EXCEPT !.symbol = r.data.symbol]
    ELSE [a EXCEPT !.decimals = r.data.decimals]

\* Mutant of Cached: getAsset never finds the id in the local map.
CachedNever(m, id) == FALSE

\* getAsset, line 103-104: the local map is consulted first.
Cached(m, id) == id \in DOMAIN m

\* Mutant of FetchOrCreate: the stored row is not used as the merge base.
FetchOrCreateFresh(st, id) == NewAsset(id)

\* getAsset, lines 105-109: the stored row if findOne returns one, else a new
\* Asset with only its id.
FetchOrCreate(st, id) == IF id \in DOMAIN st THEN st[id] ELSE NewAsset(id)

\* Mutant of AbortUpserts: the upsert sits in a finally block.
AbortUpsertsFinally(m, b) == {[batch |-> b, payload |-> m]}

\* What an exception leaving the loop starts against the store: nothing, the
\* call of line 145 is not reached.
AbortUpserts(m, b) == {}

Merge(st, payload) ==
    [k \in DOMAIN st \cup DOMAIN payload |->
        IF k \in DOMAIN payload THEN payload[k] ELSE st[k]]

\* Mutant of StoreUpsert: ctx.store.insert, which fails on an id that has a row.
StoreInsert(st, payload) ==
    IF DOMAIN st \cap DOMAIN payload # {}
    THEN [ok |-> FALSE, store |-> st]
    ELSE [ok |-> TRUE, store |-> Merge(st, payload)]

\* ctx.store.upsert(entities): insert-or-update by primary key.
StoreUpsert(st, payload) ==
    [ok |-> TRUE, store |-> Merge(st, payload)]

Bump(f, k) == [x \in DOMAIN f \cup {k} |->
                 IF x = k THEN (IF k \in DOMAIN f THEN f[k] + 1 ELSE 1) ELSE f[x]]
AddFields(w, k, fs) == [x \in DOMAIN w \cup {k} |->
                 IF x = k THEN (IF k \in DOMAIN w THEN w[k] \cup fs ELSE fs) ELSE w[x]]

NoHistory == [handler |-> "none", lookupFailed |-> FALSE, upsert |-> "none"]

\* The receipts the data source can deliver next in the current batch.
Feed ==
    IF B = <<>> THEN Receipts
    ELSE IF processed < Len(B) THEN {B[processed + 1]} ELSE {}

InitCommon ==
    /\ store \in InitStores
    /\ assetsById = Empty
    /\ pc = "idle"
    /\ batchNo = 0
    /\ processed = 0
    /\ used = 0
    /\ inflight = {}
    /\ cur = NoReceipt
    /\ lookups = <<>>
    /\ written = <<>>
    /\ base = Empty
    /\ onlyIgnored = TRUE
    /\ startStore = store
    /\ foreign = FALSE
    /\ history = [b \in 1..MaxBatches |-> NoHistory]
    /\ last = Empty
    /\ after1 = store

Init == InitCommon /\ B = <<>>

\* The runner calls the handler with the next batch (line 93); the local map
\* is created empty (line 100).
StartBatch ==
    /\ pc \in {"idle", "done", "error"}
    /\ batchNo < MaxBatches
    /\ batchNo' = batchNo + 1
    /\ pc' = "run"
    /\ assetsById' = Empty
    /\ processed' = 0
    /\ cur' = NoReceipt
    /\ lookups' = <<>>
    /\ written' = <<>>
    /\ base' = Empty
    /\ onlyIgnored' = TRUE
    /\ startStore' = store
    /\ foreign' = FALSE
    /\ UNCHANGED <<store, used, inflight, history, last, B, after1>>

\* One iteration of the receipt loop, lines 115-143.
RunReceipt(r) ==
    /\ pc = "run"
    /\ B # <<>> \/ used < MaxReceipts
    /\ processed' = processed + 1
    /\ used' = used + 1
    /\ cur' = r
    /\ onlyIgnored' = (onlyIgnored /\ Skipped(r))
    /\ UNCHANGED <<store, batchNo, startStore, foreign, last, B, after1>>
    /\ IF Ignored(r)
       THEN UNCHANGED <<assetsById, pc, inflight, lookups, written, base, history>>
       ELSE IF Throws(r)
       THEN /\ pc' = "error"
            /\ inflight' = inflight \cup AbortUpserts(assetsById, batchNo)
            /\ history' = [history EXCEPT ![batchNo].handler = "error"]
            /\ UNCHANGED <<assetsById, lookups, written, base>>
       ELSE LET id == TargetId(r) IN
            IF Cached(assetsById, id)
            THEN /\ assetsById' = Put(assetsById, id, Assign(assetsById[id], r))
                 /\ written' = AddFields(written, id, FieldsOf(r))
                 /\ UNCHANGED <<pc, inflight, lookups, base, history>>
            ELSE /\ lookups' = Bump(lookups, id)
                 /\ \/ \* findOne resolves
                       /\ assetsById' = Put(assetsById, id, Assign(FetchOrCreate(store, id), r))
                       /\ written' = AddFields(written, id, FieldsOf(r))
                       /\ base' = IF id \in DOMAIN store THEN Put(base, id, store[id]) ELSE base
                       /\ UNCHANGED <<pc, inflight, history>>
                    \/ \* findOne rejects: the await in getAsset throws
                       /\ pc' = "error"
                       /\ inflight' = inflight \cup AbortUpserts(assetsById, batchNo)
                       /\ history' = [history EXCEPT ![batchNo].handler = "error",
                                                     ![batchNo].lookupFailed = TRUE]
                       /\ UNCHANGED <<assetsById, written, base>>

Step == \E r \in Feed : RunReceipt(r)

\* The values last assigned by batches whose handler ran to line 145.
Record(l, m, w) ==
    [k \in DOMAIN l \cup DOMAIN w |->
        LET old == IF k \in DOMAIN l THEN l[k] ELSE NewAsset(k) IN
        IF k \notin DOMAIN w THEN old
        ELSE [f \in DOMAIN old |-> IF f \in w[k] THEN m[k][f] ELSE old[f]]]

\* Line 145 and the return of the handler: the upsert is started with the
\* values of the map, its promise is dropped, the handler's promise resolves.
EndBatch ==
    /\ pc = "run"
    /\ B = <<>> \/ processed = Len(B)
    /\ inflight' = inflight \cup {[batch |-> batchNo, payload |-> assetsById]}
    /\ pc' = "done"
    /\ history' = [history EXCEPT ![batchNo].handler = "ok", ![batchNo].upsert = "pending"]
    /\ last' = Record(last, assetsById, written)
    /\ UNCHANGED <<store, assetsById, batchNo, processed, used, cur, lookups, written,
                   base, onlyIgnored, startStore, foreign, B, after1>>

\* The store finishes an upsert that was started.
UpsertSettles ==
    \E p \in inflight :
        LET res == StoreUpsert(store, p.payload) IN
        /\ inflight' = inflight \ {p}
        /\ store' = res.store
        /\ history' = [history EXCEPT ![p.batch].upsert =
                          IF res.ok THEN "landed" ELSE "duplicate"]
        /\ foreign' = (foreign \/ p.batch # batchNo)
        /\ after1' = IF B # <<>> /\ p.batch = 1 THEN res.store ELSE after1
        /\ UNCHANGED <<assetsById, pc, batchNo, processed, used, cur, lookups, written,
                       base, onlyIgnored, startStore, last, B>>

\* The store is unavailable for an upsert that was started: its promise
\* rejects, and nobody holds it.  (An upsert of no entity asks nothing of the
\* store.)
UpsertRejects ==
    \E p \in inflight :
        /\ DOMAIN p.payload # {}
        /\ inflight' = inflight \ {p}
        /\ history' = [history EXCEPT ![p.batch].upsert = "failed"]
        /\ UNCHANGED <<store, assetsById, pc, batchNo, processed, used, cur, lookups, written,
                       base, onlyIgnored, startStore, foreign, last, B, after1>>

Next == StartBatch \/ Step \/ EndBatch \/ UpsertSettles \/ UpsertRejects

Spec == Init /\ [][Next]_vars

\* The runner delivers the same batch again (a retry of the whole batch).
RECURSIVE Batches(_)
Batches(n) ==
    IF n = 0 THEN {<<>>}
    ELSE LET shorter == Batches(n - 1) IN
         shorter \cup {Append(b, r) : b \in shorter, r \in Receipts}

InitReplay == InitCommon /\ B \in Batches(MaxLen) \ {<<>>}

SpecReplay == InitReplay /\ [][Next]_vars

----------------------------------------------------------------------------
(* What the properties below read off a receipt, stated from the receipt   *)
(* alone.                                                                  *)

\* The receipt carries what its branch needs: both mint fields, or a payload
\* that decodes.
Valid(r) ==
    \/ r.receiptType = "MINT" /\ r.contract # None /\ r.subId # None
    \/ r.receiptType = "LOG_DATA" /\ ~Skipped(r) /\ r.data.ok

\* The asset identifier the receipt refers to.
EventId(r) ==
    IF r.receiptType = "MINT" THEN getAssetId(r.contract[1], r.subId[1])
    ELSE r.data.asset[1]

\* The fields the receipt is meant to set.
EventFields(r) ==
    IF r.receiptType = "MINT" THEN {"contractId", "subId"}
    ELSE IF r.rb = setNameEventId THEN {"name"}
    ELSE IF r.rb = setSymbolEventId THEN {"symbol"}
    ELSE {"decimals"}

\* A 0x-prefixed string whose digits are not all hexadecimal or are odd in number.
Malformed(s) ==
    LET h == Slice2(s) IN
    \/ Len(h) % 2 = 1
    \/ \E i \in 1..Len(h) : h[i] \notin HexDigits

\* The latest transition handled a receipt.
Handled == processed' = processed + 1

BatchNos == 1..MaxBatches

----------------------------------------------------------------------------
(* C2 *)

\* C2: the end-of-batch upsert is awaited: an upsert is pending only while
\* the handler of its own batch has not returned yet, so no later batch runs
\* (and looks up) while an earlier upsert is still pending.
C2_UpsertAwaited ==
    \A p \in inflight :
        DOMAIN p.payload # {} => (p.batch = batchNo /\ pc = "run")

----------------------------------------------------------------------------
(* C3 *)

\* C3: a store failure during a point lookup or during the bulk upsert of a
\* batch makes the handler end that batch in an error; the batch is never
\* reported as processed.
C3_StoreFailurePropagates ==
    \A b \in BatchNos :
        (history[b].lookupFailed \/ history[b].upsert = "failed")
            => history[b].handler = "error"

----------------------------------------------------------------------------
(* C6 *)

\* C6: last write wins per field, across batches as within one: once every
\* batch has been handled without error and every upsert has landed, each
\* field of a stored record holds the value of the last event that wrote it.
C6_LastWriteWins ==
    (/\ pc = "done"
     /\ inflight = {}
     /\ \A b \in 1..batchNo : history[b].handler = "ok" /\ history[b].upsert = "landed")
    => \A k \in DOMAIN last : \A f \in Fields :
          last[k][f] # None => (k \in DOMAIN store /\ store[k][f] = last[k][f])

----------------------------------------------------------------------------
(* C9 *)

\* C9: a MINT receipt whose contract id or sub-id is not well-formed
\* hexadecimal, or has an odd number of digits, makes the identity derivation
\* fail: the batch is aborted.
C9_MalformedMintAborts ==
    (/\ cur.receiptType = "MINT"
     /\ cur.contract # None /\ cur.subId # None
     /\ (Malformed(cur.contract[1]) \/ Malformed(cur.subId[1])))
    => pc = "error"

----------------------------------------------------------------------------
(* C1 *)

----------------------------------------------------------------------------
(* C4 *)

WellKeyed(m) ==
    \A k \in DOMAIN m :
        /\ m[k].id = k
        /\ (m[k].contractId # None /\ m[k].subId # None)
              => k = getAssetId(m[k].contractId[1], m[k].subId[1])

\* A handled receipt that refers to the identifier X changes the record keyed
\* X in the local map and no other record.
OnlyOwnRecord ==
    (Handled /\ Valid(cur') /\ pc' = "run") =>
        LET X == EventId(cur') IN
        /\ DOMAIN assetsById' = DOMAIN assetsById \cup {X}
        /\ \A k \in DOMAIN assetsById \ {X} : assetsById'[k] = assetsById[k]
        /\ \A f \in EventFields(cur') :
              assetsById'[X][f] = (IF cur'.receiptType = "MINT"
                                   THEN (IF f = "contractId" THEN cur'.contract ELSE cur'.subId)
                                   ELSE cur'.data[f])

\* C4: every record of the store, of the local map and of a started upsert is
\* kept under its own id, and that id is getAssetId(contractId, subId) whenever
\* both fields are set; a mint and a metadata event with the same identifier
\* update the same record, the one keyed by that identifier.
C4_Identity ==
    /\ [](WellKeyed(store) /\ WellKeyed(assetsById)
            /\ \A p \in inflight : WellKeyed(p.payload))
    /\ [][OnlyOwnRecord]_vars

\* One batch brought a mint and a metadata event for the same identifier, in
\* either order, and the record was stored.
C4_Witness ==
    /\ ID1 \in DOMAIN written
    /\ {"contractId", "subId", "name"} \subseteq written[ID1]
    /\ history[batchNo].upsert = "landed"
    /\ ID1 \in DOMAIN store
    /\ store[ID1].name # None /\ store[ID1].contractId = Some(C_AA)

----------------------------------------------------------------------------
(* C5 *)

----------------------------------------------------------------------------
(* C7 *)

\* C7: a batch that is delivered again is upserted without a duplicate-key
\* failure, and leaves the store as its first delivery left it.
C7_ReplayIdempotent ==
    /\ \A b \in BatchNos : history[b].upsert # "duplicate"
    /\ history[1].upsert = "landed" => store = after1

\* The batch ran twice, the second run read what the first wrote, both
\* upserts landed, and the batch wrote a row.
C7_Witness ==
    /\ batchNo = 2
    /\ history[1].upsert = "landed" /\ history[2].upsert = "landed"
    /\ DOMAIN base # {}
    /\ DOMAIN startStore # {} /\ startStore = after1
    /\ store = after1

----------------------------------------------------------------------------
(* C8 *)

\* An ignored receipt raises no error, triggers no lookup, and leaves the local
\* map, the store and the started upserts as they are.
IgnoredIsNoOp ==
    (Handled /\ Skipped(cur')) =>
        /\ pc' = pc
        /\ assetsById' = assetsById
        /\ lookups' = lookups
        /\ store' = store
        /\ inflight' = inflight
        /\ history' = history

\* C8: ignored receipts are a no-op, and a batch of only such receipts starts
\* an upsert of no record and leaves the store content unchanged.
C8_IgnoredNoOp ==
    /\ [][IgnoredIsNoOp]_vars
    /\ [](onlyIgnored =>
            /\ pc # "error"
            /\ assetsById = Empty
            /\ \A p \in inflight : p.batch = batchNo => p.payload = Empty
            /\ (pc \in {"run", "done"} /\ ~foreign) => store = startStore)

\* A batch of ignored receipts only, against a store with a row, after its
\* upsert settled.
C8_Witness ==
    /\ onlyIgnored
    /\ processed >= 2
    /\ pc = "done"
    /\ history[batchNo].upsert = "landed"
    /\ DOMAIN store # {}
    /\ cur.receiptType = "LOG_DATA"

----------------------------------------------------------------------------
(* C10 *)

\* A handled receipt looks its id up only if no earlier receipt of the batch
\* referred to it, and then once; otherwise it works on the record in the
\* local map, whose other fields keep what earlier receipts wrote.
FetchOnce ==
    (Handled /\ Valid(cur')) =>
        LET X == EventId(cur') IN
        IF X \in DOMAIN assetsById
        THEN /\ lookups' = lookups
             /\ pc' = "run"
             /\ \A f \in Fields \ EventFields(cur') : assetsById'[X][f] = assetsById[X][f]
        ELSE /\ X \notin DOMAIN written
             /\ lookups' = Bump(lookups, X)

\* A new batch starts with an empty local map.
FreshMap == batchNo' # batchNo => (assetsById' = Empty /\ lookups' = <<>>)

\* C10: within one batch the store is looked up at most once per id, on the
\* first receipt that refers to the id; later receipts reuse the in-memory
\* record and see the earlier writes; the map is empty when a batch starts.
C10_FetchOrCreate ==
    /\ [](\A k \in DOMAIN lookups : lookups[k] <= 1)
    /\ [](pc = "run" => DOMAIN assetsById \subseteq DOMAIN lookups)
    /\ [][FetchOnce /\ FreshMap]_vars

\* Two receipts of one batch referred to the same id; the second one found the
\* first one's write.
C10_Witness ==
    /\ pc = "run"
    /\ processed = 2
    /\ ID1 \in DOMAIN written /\ written[ID1] = {"name", "symbol"}
    /\ lookups = Put(<<>>, ID1, 1)
    /\ assetsById[ID1].name # None /\ assetsById[ID1].symbol # None

====
